---- MODULE Spec2Model ----
(***************************************************************************)
(* Model of the pausable email-triage workflow of inbox_zero:              *)
(*   - StateManager (src/workflows/state_manager.py): the State Store      *)
(*   - DraftApprovalHandler (src/slack_handlers/draft_approval_handler.py) *)
(*     : the Approval Broker                                               *)
(*   - EmailProcessingWorkflow (src/workflows/workflow.py): the LangGraph  *)
(*     step graph, run by stream() from its entry point                    *)
(*   - the triggers: start_workflow / resume_workflow (flask_routes.py)    *)
(*     and the Slack button callbacks (slack_routes.py) which call         *)
(*     resume_workflow_after_action (workflow_bridge.py)                   *)
(*                                                                         *)
(* Python's None is the empty sequence <<>>, a value x that may be None is *)
(* <<x>>.  A pydantic model instance and the plain dict that model_dump()  *)
(* makes of it are told apart by the field "form".                         *)
(***************************************************************************)
EXTENDS Integers, Sequences, FiniteSets, TLC

VARIABLES
    store,           \* StateManager._memory_store : user_id -> None | bytes
    pending_drafts,  \* DraftApprovalHandler.pending_drafts : draft_id -> None | record
    draft_timeouts,  \* DraftApprovalHandler.draft_timeouts : draft_id -> None | expiry
    uuid_count,      \* number of draft ids handed out by uuid.uuid4()
    mail_log,        \* calls made on the mailbox, in order: [op, draft_id, draft]
    published,       \* approval messages posted to Slack, in order: [user, index, draft]
    now,             \* datetime.now(), in seconds
    h,               \* per request: the handler that serves it and its locals
    starts,          \* number of start requests accepted so far
    decisions,       \* number of decision requests accepted so far
    ticks,           \* number of clock advances so far
    last             \* per worker: what its most recently finished request did

vars == <<store, pending_drafts, draft_timeouts, uuid_count, mail_log, published,
          now, h,
          starts, decisions, ticks, last>>

----------------------------------------------------------------------------
(* Bounds *)

MaxEmailId == 1      \* message ids are 1..MaxEmailId
MaxRaw == 1          \* messages returned by one mailbox listing
MaxCands == 2        \* entries of one triage answer
MaxTexts == 0        \* distinct reply texts the generator produces, 0..MaxTexts
MaxStarts == 1       \* start requests served in one behaviour
MaxDecisions == 2    \* decision requests served in one behaviour
MaxTicks == 1        \* clock advances in one behaviour

Users == {"u1", "u2"}
EmailIds == 1..MaxEmailId
Texts == 0..MaxTexts
Procs == {1, 2}
DraftIds == 1..(MaxStarts + MaxDecisions)

None == <<>>
Some(x) == <<x>>
IsNone(o) == o = <<>>
Val(o) == o[1]

Range(s) == {s[i] : i \in DOMAIN s}

SeqsUpTo(S, n) == UNION {[1..k -> S] : k \in 0..n}

----------------------------------------------------------------------------
(* Program constants *)

TIMEOUT_SECONDS == 3600
DRAFT_TIMEOUT_HOURS == 24
RECURSION_LIMIT == 25
DRAFT_TIMEOUT_SECONDS == DRAFT_TIMEOUT_HOURS * 3600

----------------------------------------------------------------------------
(* models/gmail.py, models/agent.py *)

\* An EmailMessage, as a model instance.
EmailMessage(i) == [id |-> i, form |-> "model"]

\* GmailAgentState(user_id=..., thread_id=...) with every default.
\* thread_id, current_email_index and pending_approvals are never read or
\* written by the workflow after construction and are left out.
GmailAgentState(user_id) ==
    [user_id |-> user_id,
     unread_emails |-> <<>>,
     email_summary |-> None,
     processed_emails |-> <<>>,
     draft_responses |-> <<>>,
     current_draft_index |-> 0,
     awaiting_approval |-> FALSE,
     awaiting_approval_since |-> None,
     should_continue |-> TRUE,
     error_message |-> None,
     final_summary |-> None,
     workflow_complete |-> FALSE]

\* The fields GmailAgentState declares.  Assigning any other attribute on a
\* pydantic BaseModel (no extra="allow" in the class) raises ValueError.
DeclaredFields == DOMAIN GmailAgentState("u1")

SetAttrRaises(field) == field \notin DeclaredFields

----------------------------------------------------------------------------
(* pydantic serialisation: model_dump() and the GmailAgentState constructor *)

DumpEmail(e) == [e EXCEPT !.form = "dict"]
ValidateEmail(e) == [e EXCEPT !.form = "model"]

DumpEmails(s) == [i \in DOMAIN s |-> DumpEmail(s[i])]
ValidateEmails(s) == [i \in DOMAIN s |-> ValidateEmail(s[i])]

\* EmailSummary: emails is List[EmailMessage]; summary_by_sender is a bare
\* dict whose values hold EmailMessage objects.
DumpSummary(o) ==
    IF IsNone(o) THEN None
    ELSE Some([emails |-> DumpEmails(Val(o).emails),
               summary_by_sender |-> DumpEmails(Val(o).summary_by_sender),
               recent_activity |-> Val(o).recent_activity])

\* validation rebuilds the typed field and keeps the bare dict as it is
ValidateSummary(o) ==
    IF IsNone(o) THEN None
    ELSE Some([Val(o) EXCEPT !.emails = ValidateEmails(Val(o).emails)])

\* draft_responses is List[Dict]: the serializer turns the EmailMessage held
\* under "original_email" into a dict, validation of a bare Dict keeps it.
DumpDraftInfo(d) == [d EXCEPT !.original_email = DumpEmail(d.original_email)]

model_dump(state) ==
    [state EXCEPT
       !.unread_emails = DumpEmails(state.unread_emails),
       !.email_summary = DumpSummary(state.email_summary),
       !.draft_responses = [i \in DOMAIN state.draft_responses |->
                               DumpDraftInfo(state.draft_responses[i])]]

Validate(data) ==
    [data EXCEPT
       !.unread_emails = ValidateEmails(data.unread_emails),
       !.email_summary = ValidateSummary(data.email_summary)]

----------------------------------------------------------------------------
(* workflows/state_manager.py *)

\* A one-key dict whose value is a dict is unwrapped, anything else is
\* returned as it is.  A dict is a function here; `inner` says whether the
\* single value is itself a dict.
extract_langgraph_state(state_dict, inner) ==
    IF Cardinality(DOMAIN state_dict) = 1 /\ inner
    THEN state_dict[CHOOSE k \in DOMAIN state_dict : TRUE]
    ELSE state_dict

\* pickle.dumps of the envelope {"type", "version", "timestamp", "data"}.
\* The timestamp is written and never read.
Envelope(state) ==
    [pickle |-> "dict", type |-> "GmailAgentState", version |-> "1.0",
     data |-> Some(model_dump(state))]

\* A save that makes its record the only one of the store.
SaveStateDropsOthers(st, state) ==
    [u \in DOMAIN st |-> IF u = state.user_id THEN Some(Envelope(state)) ELSE None]

\* save_state with the memory backend: the record keyed by state.user_id is
\* overwritten.  (The isinstance check that comes first is in SaveTry; the
\* handlers and nodes always pass a GmailAgentState.)
save_state(st, state) == [st EXCEPT ![state.user_id] = Some(Envelope(state))]

\* The body of the try block of load_state: [raised, value].
\*   pickle = "garbage"  : pickle.loads raises
\*   pickle = "nondict"  : ValueError("Invalid serialized state format")
\*   type # GmailAgentState : ValueError("Expected GmailAgentState, got ...")
\*   data = None         : no usable "data" (KeyError / ValidationError)
LoadTry(bytes) ==
    IF IsNone(bytes) THEN [raised |-> FALSE, value |-> None]
    ELSE LET b == Val(bytes) IN
         IF b.pickle = "garbage" THEN [raised |-> TRUE, value |-> None]
         ELSE IF b.pickle # "dict" THEN [raised |-> TRUE, value |-> None]
         ELSE IF b.type # "GmailAgentState" THEN [raised |-> TRUE, value |-> None]
         ELSE IF IsNone(b.data) THEN [raised |-> TRUE, value |-> None]
         ELSE [raised |-> FALSE,
               value |-> Some(Validate(extract_langgraph_state(Val(b.data), FALSE)))]

\* load_state: `except Exception` prints the error and returns None.
load_state(st, user_id) ==
    LET r == LoadTry(st[user_id]) IN
    IF r.raised THEN None ELSE r.value

----------------------------------------------------------------------------
(* slack_handlers/draft_approval_handler.py *)

NoDraft == None

\* send_draft_for_approval: what it leaves in pending_drafts and
\* draft_timeouts, and whether it returns the id or raises.
\*   outcome "decode_raise": gmail_writer.send_draft_slack raises
\*   outcome "post_raise"  : chat_postMessage raises
\*   outcome "ok"          : the message is posted
send_draft_for_approval(draft, user_id, outcome) ==
    LET draft_id == uuid_count + 1
        entry == [draft |-> draft, user_id |-> user_id,
                  status |-> "pending", slack_message_ts |-> FALSE]
    IN
    IF outcome = "decode_raise"
    THEN [raised |-> TRUE, draft_id |-> draft_id,
          pending |-> pending_drafts, timeouts |-> draft_timeouts]
    ELSE [raised |-> outcome = "post_raise", draft_id |-> draft_id,
          pending |-> [pending_drafts EXCEPT ![draft_id] =
                          Some([entry EXCEPT !.slack_message_ts = (outcome = "ok")])],
          timeouts |-> [draft_timeouts EXCEPT ![draft_id] =
                          Some(now + DRAFT_TIMEOUT_SECONDS)]]

\* _cleanup_draft
CleanupPending(pd, draft_id) == [pd EXCEPT ![draft_id] = None]

SetStatus(pd, draft_id, status) ==
    [pd EXCEPT ![draft_id] = Some([Val(pd[draft_id]) EXCEPT !.status = status])]

\* A logging.info record: the message and the ids it is formatted with
\* (user_id is "" for a message that names no user).
Info(msg, draft_id, user_id) == [msg |-> msg, draft_id |-> draft_id, user_id |-> user_id]

\* A call made on the mailbox for the draft of a broker record, whatever
\* came of it.
MailCall(op, draft_id, draft) ==
    [op |-> op, draft_id |-> draft_id, draft |-> draft]

\* What a handler of the broker leaves behind: the broker records, the
\* mailbox calls it made, its reply on Slack and its INFO log records.
Handled(pd, to, mails, reply, logs) ==
    [pending |-> pd, timeouts |-> to, mails |-> mails, reply |-> reply, logs |-> logs]

Holds(pd, draft_id) == draft_id \in DraftIds /\ ~IsNone(pd[draft_id])

\* _handle_approve.  mail is what gmail_writer.send_draft does:
\*   "ok" returns a result, "falsy" returns nothing, "raise" raises.
\* The INFO record is written before the try; a draft_id that is not held is
\* a KeyError inside it.
_handle_approve(pd, to, draft_id, user_id, mail) ==
    LET info == Info("Draft approved", draft_id, user_id) IN
    IF ~Holds(pd, draft_id) THEN Handled(pd, to, <<>>, "error", <<info>>)
    ELSE LET call == MailCall("send", draft_id, Val(pd[draft_id]).draft) IN
         IF mail = "ok"
         THEN Handled(SetStatus(pd, draft_id, "approved"), to, <<call>>, "approved",
                      <<info, Info("Updating original message", draft_id, "")>>)
         ELSE IF mail = "falsy"
         THEN Handled(CleanupPending(pd, draft_id), CleanupPending(to, draft_id),
                      <<call>>, "send_failed",
                      <<info, Info("Cleaning up draft", draft_id, "")>>)
         ELSE Handled(pd, to, <<call>>, "error", <<info>>)

\* A reject handler whose INFO record names the approve decision.
RejectLoggedAsApprove(pd, to, draft_id, user_id) ==
    Handled(SetStatus(pd, draft_id, "rejected"), to, <<>>, "rejected",
            <<Info("Draft approved", draft_id, user_id),
              Info("Updating original message", draft_id, "")>>)

\* _handle_reject
_handle_reject(pd, to, draft_id, user_id) ==
    LET info == Info("Draft rejected", draft_id, user_id) IN
    IF ~Holds(pd, draft_id) THEN Handled(pd, to, <<>>, "error", <<info>>)
    ELSE Handled(SetStatus(pd, draft_id, "rejected"), to, <<>>, "rejected",
                 <<info, Info("Updating original message", draft_id, "")>>)

\* A save handler that sends the draft instead of saving it.
SaveThatSends(pd, to, draft_id, user_id, mail) ==
    _handle_approve(pd, to, draft_id, user_id, mail)

\* _handle_save.  mail is what gmail_writer.save_draft does; its result is
\* not looked at, and status is left as it is.
_handle_save(pd, to, draft_id, user_id, mail) ==
    LET info == Info("Draft saved", draft_id, user_id) IN
    IF ~Holds(pd, draft_id) THEN Handled(pd, to, <<>>, "error", <<info>>)
    ELSE LET call == MailCall("save", draft_id, Val(pd[draft_id]).draft) IN
         IF mail = "raise"
         THEN Handled(pd, to, <<call>>, "error", <<info>>)
         ELSE Handled(pd, to, <<call>>, "saved",
                      <<info, Info("Updating original message", draft_id, "")>>)

\* An action handler that does not compare the time with the draft's timeout.
ActionWithoutExpiry(action_type, draft_id, user_id, mail) ==
    IF ~Holds(pending_drafts, draft_id)
    THEN Handled(pending_drafts, draft_timeouts, <<>>, "missing", <<>>)
    ELSE CASE action_type = "approve" ->
                 _handle_approve(pending_drafts, draft_timeouts, draft_id, user_id, mail)
           [] action_type = "reject" ->
                 _handle_reject(pending_drafts, draft_timeouts, draft_id, user_id)
           [] action_type = "save" ->
                 _handle_save(pending_drafts, draft_timeouts, draft_id, user_id, mail)
           [] OTHER -> Handled(pending_drafts, draft_timeouts, <<>>, "unknown", <<>>)

\* handle_approval_action: the button value is "<action_type>_<draft_id>",
\* user_id is the user who clicked.
handle_approval_action(action_type, draft_id, user_id, mail) ==
    IF ~Holds(pending_drafts, draft_id)
    THEN Handled(pending_drafts, draft_timeouts, <<>>, "missing", <<>>)
    ELSE IF now > Val(draft_timeouts[draft_id])
    THEN Handled(CleanupPending(pending_drafts, draft_id),
                 CleanupPending(draft_timeouts, draft_id), <<>>, "expired",
                 <<Info("Cleaning up draft", draft_id, "")>>)
    ELSE CASE action_type = "approve" ->
                 _handle_approve(pending_drafts, draft_timeouts, draft_id, user_id, mail)
           [] action_type = "reject" ->
                 _handle_reject(pending_drafts, draft_timeouts, draft_id, user_id)
           [] action_type = "save" ->
                 _handle_save(pending_drafts, draft_timeouts, draft_id, user_id, mail)
           [] OTHER -> Handled(pending_drafts, draft_timeouts, <<>>, "unknown", <<>>)

----------------------------------------------------------------------------
(* workflows/workflow.py: the nodes *)

RECURSIVE Dedup(_, _)
\* list({e.id: e for e in recent_emails}.values()): one entry per id, at the
\* position of the id's first occurrence.
Dedup(recent_emails, seen) ==
    IF recent_emails = <<>> THEN <<>>
    ELSE IF Head(recent_emails).id \in seen
         THEN Dedup(Tail(recent_emails), seen)
         ELSE <<Head(recent_emails)>> \o
              Dedup(Tail(recent_emails), seen \cup {Head(recent_emails).id})

RECURSIVE ThreadEmails(_, _)
\* the loop over unread_emails: the thread fetch of each is appended.
\* threads[i] is what get_recent_emails_in_thread returns for the i-th one.
ThreadEmails(n, threads) ==
    IF n = 0 THEN <<>>
    ELSE ThreadEmails(n - 1, threads) \o threads[n]

\* _read_unread_emails: `listing` is what read_emails returns.
_read_unread_emails(state, listing, threads) ==
    [state EXCEPT !.unread_emails =
        Dedup([i \in 1..Len(ThreadEmails(Len(listing), threads)) |->
                  EmailMessage(ThreadEmails(Len(listing), threads)[i])], {})]

\* A summary node that writes a summary also when there is nothing unread.
SummaryOfNothing(state, gen) ==
    [state EXCEPT !.email_summary =
        Some([emails |-> state.unread_emails,
              summary_by_sender |-> state.unread_emails,
              recent_activity |-> "summary"])]

\* _generate_email_summary: gen = "raise" when the OpenAI call raises.
_generate_email_summary(state, gen) ==
    IF state.unread_emails = <<>>
    THEN [state EXCEPT !.email_summary = None]
    ELSE IF gen = "raise"
    THEN [state EXCEPT !.error_message = Some("Error generating summary"),
                       !.should_continue = FALSE]
    ELSE [state EXCEPT !.email_summary =
             Some([emails |-> state.unread_emails,
                   summary_by_sender |-> state.unread_emails,
                   recent_activity |-> "summary"])]

\* _process_emails_for_drafts: answer is None when the OpenAI call raises or
\* the content is not JSON, else the "emails_to_respond" list (email ids).
_process_emails_for_drafts(state, answer) ==
    IF state.unread_emails = <<>>
    THEN state
    ELSE IF IsNone(answer)
    THEN [state EXCEPT !.error_message = Some("Error processing emails"),
                       !.should_continue = FALSE]
    ELSE [state EXCEPT !.processed_emails = Val(answer)]

\* next((e for e in unread_emails if e.id == email_id), None)
FindEmail(unread_emails, email_id) ==
    IF \E i \in DOMAIN unread_emails : unread_emails[i].id = email_id
    THEN Some(unread_emails[CHOOSE i \in DOMAIN unread_emails :
                 /\ unread_emails[i].id = email_id
                 /\ \A j \in 1..(i - 1) : unread_emails[j].id # email_id])
    ELSE None

\* An entry of the triage answer is modelled by its "email_id"; NoEmailId
\* stands for an entry (a dict) that has no such key.
NoEmailId == 0

RECURSIVE DraftLoop(_, _, _, _)
\* The for loop of _create_draft_responses from candidate k on, with the
\* list built so far.  email_info["email_id"] on an entry without the key is
\* a KeyError outside the inner try.  out[k] is what happens to candidate k:
\*   "gen_raise"    : _generate_draft_response raises (outside the inner try)
\*   "create_raise" : gmail_writer.create_draft raises (inner try: skipped)
\*   "ok"           : the draft is appended; text[k] is the generated reply
DraftLoop(state, k, acc, env) ==
    IF k > Len(state.processed_emails) THEN [raised |-> FALSE, drafts |-> acc]
    ELSE LET email_id == state.processed_emails[k]
             email == FindEmail(state.unread_emails, email_id)
         IN
         IF email_id = NoEmailId THEN [raised |-> TRUE, drafts |-> acc]
         ELSE IF IsNone(email) THEN DraftLoop(state, k + 1, acc, env)
         ELSE IF env.out[k] = "gen_raise" THEN [raised |-> TRUE, drafts |-> acc]
         ELSE IF env.out[k] = "create_raise" THEN DraftLoop(state, k + 1, acc, env)
         ELSE DraftLoop(state, k + 1,
                        Append(acc, [email_id |-> email_id,
                                     draft |-> [raw |-> <<email_id, env.text[k]>>],
                                     original_email |-> Val(email),
                                     draft_content |-> env.text[k]]),
                        env)

\* _create_draft_responses
_create_draft_responses(state, env) ==
    IF state.processed_emails = <<>>
    THEN state
    ELSE LET r == DraftLoop(state, 1, <<>>, env) IN
         IF r.raised
         THEN [state EXCEPT !.error_message = Some("Error creating drafts"),
                            !.should_continue = FALSE]
         ELSE [state EXCEPT !.draft_responses = r.drafts]

\* A gate that does not look at awaiting_approval before it publishes.
GateBranchIgnoresAwaiting(state) ==
    IF state.draft_responses = <<>>
       \/ state.current_draft_index >= Len(state.draft_responses)
    THEN "finalize"
    ELSE "publish"

\* The branch _send_drafts_to_slack takes.
GateBranch(state) ==
    IF state.draft_responses = <<>>
       \/ state.current_draft_index >= Len(state.draft_responses)
    THEN "finalize"
    ELSE IF state.awaiting_approval
    THEN IF now - Val(state.awaiting_approval_since) > TIMEOUT_SECONDS
         THEN "timeout" ELSE "wait"
    ELSE "publish"

\* A timed-out branch that clears the flag and leaves the cursor where it is.
GateTimeoutKeepsCursor(state) ==
    [state EXCEPT !.awaiting_approval = FALSE]

\* The timed-out branch of _send_drafts_to_slack: an implicit skip.
GateTimeout(state) ==
    [state EXCEPT !.awaiting_approval = FALSE,
                  !.current_draft_index = @ + 1]

\* _send_final_summary: the parts of the digest that are present.
_send_final_summary(state) ==
    [state EXCEPT
       !.final_summary = Some([summary |-> ~IsNone(state.email_summary),
                               drafts |-> Len(state.draft_responses),
                               error |-> state.error_message]),
       !.workflow_complete = TRUE]

\* The edges with the two targets of the gate's conditional edge swapped.
NextNodeSwapped(node, state) ==
    CASE node = "read_unread_emails" -> "generate_email_summary"
      [] node = "generate_email_summary" -> "process_emails_for_drafts"
      [] node = "process_emails_for_drafts" -> "create_draft_responses"
      [] node = "create_draft_responses" -> "send_drafts_to_slack"
      [] node = "send_drafts_to_slack" ->
            IF state.current_draft_index >= Len(state.draft_responses)
            THEN "wait_for_user_action" ELSE "send_final_summary"
      [] node = "wait_for_user_action" ->
            IF state.awaiting_approval = FALSE
            THEN "send_drafts_to_slack" ELSE "wait_for_user_action"
      [] node = "send_final_summary" -> "END"

\* The edges of _create_workflow: the node that runs after `node`.
NextNode(node, state) ==
    CASE node = "read_unread_emails" -> "generate_email_summary"
      [] node = "generate_email_summary" -> "process_emails_for_drafts"
      [] node = "process_emails_for_drafts" -> "create_draft_responses"
      [] node = "create_draft_responses" -> "send_drafts_to_slack"
      [] node = "send_drafts_to_slack" ->
            IF state.current_draft_index >= Len(state.draft_responses)
            THEN "send_final_summary" ELSE "wait_for_user_action"
      [] node = "wait_for_user_action" ->
            IF state.awaiting_approval = FALSE
            THEN "send_drafts_to_slack" ELSE "wait_for_user_action"
      [] node = "send_final_summary" -> "END"

\* An entry point set on the second node.
EntryPointSkipsRead == "generate_email_summary"

\* set_entry_point
EntryPoint == "read_unread_emails"

----------------------------------------------------------------------------
(* Requests in flight *)

Idle == [kind |-> "idle"]

\* The locals of a handler that is iterating workflow.workflow.stream(state):
\*   node   : the node stream() runs next (it starts at the entry point)
\*   state  : the state the graph holds
\*   final  : final_state of the consuming loop
\*   steps  : supersteps done by this stream() call
\*   trace  : the nodes this stream() call has run
\*   loaded : what load_state_from_store returned (None for a start request)
Running(kind, user, state, final, loaded) ==
    [kind |-> kind, user |-> user, node |-> EntryPoint, state |-> state,
     final |-> final, steps |-> 0, trace |-> <<>>, loaded |-> loaded]

\* The record kept of a finished request.
\*   outcome : "paused" | "completed" | "resumed" | "nothing" | "raised"
\*   error   : the exception that left the handler, if any
Done(kind, user, outcome, trace, error) ==
    [kind |-> kind, user |-> user, outcome |-> outcome, ran |-> Len(trace),
     error |-> error]

NoRequest == Done("none", "u1", "none", <<>>, "none")

Active(p) == h[p].kind # "idle"

\* A request is accepted by p.  conc = FALSE is the single-writer discipline
\* of the synchronous server: no other request is in flight.
Free(p, conc) ==
    /\ ~Active(p)
    /\ conc \/ \A q \in Procs : ~Active(q)

\* An exception leaves the handler: nothing after the raising statement runs.
Raise(p, trace, error) ==
    /\ h' = [h EXCEPT ![p] = Idle]
    /\ last' = [last EXCEPT ![p] = Done(h[p].kind, h[p].user, "raised", trace, error)]

\* stream() yields {node: fields} after `node` has run and the consuming
\* loop of the handler takes it.  st is the store as the node left it.
Consume(p, node, s, st) ==
    LET chunk == (node :> s)
        new_state == extract_langgraph_state(chunk, TRUE)
        trace == Append(h[p].trace, node)
    IN
    IF h[p].kind = "start" /\ new_state.awaiting_approval
    THEN /\ store' = save_state(st, new_state)
         /\ h' = [h EXCEPT ![p] = Idle]
         /\ last' = [last EXCEPT ![p] = Done("start", h[p].user, "paused", trace, "none")]
    ELSE /\ store' = st
         /\ h' = [h EXCEPT ![p] = [@ EXCEPT !.state = new_state,
                                             !.final = Some(new_state),
                                             !.steps = @ + 1,
                                             !.trace = trace,
                                             !.node = NextNode(node, new_state)]]
         /\ UNCHANGED last

At(p, node) == Active(p) /\ h[p].node = node

Broker == <<pending_drafts, draft_timeouts, uuid_count, mail_log, published>>
Clock == <<now, ticks>>

----------------------------------------------------------------------------
(* The triggers *)

\* routes/flask_routes.py start_workflow, up to the first next() on stream()
StartWorkflow(p, u, conc) ==
    /\ Free(p, conc)
    /\ starts < MaxStarts
    /\ h' = [h EXCEPT ![p] = Running("start", u, GmailAgentState(u), None, None)]
    /\ starts' = starts + 1
    /\ UNCHANGED <<store, Broker, Clock, decisions, last>>

\* routes/slack/slack_routes.py approve_draft_action / reject_draft_action /
\* save_draft_action: handle_approval_action(body), then
\* resume_workflow_after_action(body["user"]["id"], ...) up to its stream().
\* The button value is "<action_type>_<draft_id>", the clicking user is actor.
SlackAction(p, actor, action_type, draft_id, mail, conc) ==
    /\ Free(p, conc)
    /\ decisions < MaxDecisions
    /\ decisions' = decisions + 1
    /\ LET r == handle_approval_action(action_type, draft_id, actor, mail)
           state == load_state(store, actor)
       IN
       /\ pending_drafts' = r.pending
       /\ draft_timeouts' = r.timeouts
       /\ mail_log' = mail_log \o r.mails
       /\ IF IsNone(state)
          THEN /\ h' = h
               /\ last' = [last EXCEPT ![p] = Done("bridge", actor, "nothing", <<>>, "none")]
          ELSE LET resumed == [Val(state) EXCEPT
                                  !.awaiting_approval = FALSE,
                                  !.current_draft_index = @ + 1]
               IN /\ h' = [h EXCEPT ![p] =
                             Running("bridge", actor, resumed, Some(resumed), state)]
                  /\ UNCHANGED last
    /\ UNCHANGED <<store, uuid_count, published, Clock, starts>>

\* routes/flask_routes.py resume_workflow, up to its stream().  Every branch
\* of the if/elif chain on `action` increments current_draft_index.
ResumeWorkflow(p, u, action, conc) ==
    /\ Free(p, conc)
    /\ decisions < MaxDecisions
    /\ decisions' = decisions + 1
    /\ LET state == load_state(store, u) IN
       IF IsNone(state)
       THEN \* state.awaiting_approval = False on None: AttributeError
            /\ h' = h
            /\ last' = [last EXCEPT ![p] = Done("route", u, "raised", <<>>, "AttributeError")]
       ELSE LET resumed == [Val(state) EXCEPT
                               !.awaiting_approval = FALSE,
                               !.current_draft_index = @ + 1]
            IN /\ h' = [h EXCEPT ![p] = Running("route", u, resumed, None, state)]
               /\ UNCHANGED last
    /\ UNCHANGED <<store, Broker, Clock, starts>>

----------------------------------------------------------------------------
(* One superstep of stream() and the loop body that consumes its yield *)

Listings == SeqsUpTo(EmailIds, MaxRaw)

ReadUnreadEmails(p) ==
    /\ At(p, "read_unread_emails")
    /\ \/ \E listing \in Listings :
            \E threads \in [1..Len(listing) -> Listings] :
               Consume(p, "read_unread_emails",
                       _read_unread_emails(h[p].state, listing, threads), store)
       \/ \* the Gmail API call raises: the node has no try
          /\ Raise(p, h[p].trace, "HttpError")
          /\ UNCHANGED store
    /\ UNCHANGED <<Broker, Clock, starts, decisions>>

GenerateEmailSummary(p) ==
    /\ At(p, "generate_email_summary")
    /\ \E gen \in {"ok", "raise"} :
          Consume(p, "generate_email_summary",
                  _generate_email_summary(h[p].state, gen), store)
    /\ UNCHANGED <<Broker, Clock, starts, decisions>>

ProcessEmailsForDrafts(p) ==
    /\ At(p, "process_emails_for_drafts")
    /\ \E answer \in {None} \cup {Some(c) : c \in SeqsUpTo(EmailIds, MaxCands)} :
          Consume(p, "process_emails_for_drafts",
                  _process_emails_for_drafts(h[p].state, answer), store)
    /\ UNCHANGED <<Broker, Clock, starts, decisions>>

CreateDraftResponses(p) ==
    /\ At(p, "create_draft_responses")
    /\ \E out \in [1..MaxCands -> {"ok", "gen_raise", "create_raise"}] :
         \E text \in [1..MaxCands -> Texts] :
          Consume(p, "create_draft_responses",
                  _create_draft_responses(h[p].state, [out |-> out, text |-> text]),
                  store)
    /\ UNCHANGED <<Broker, Clock, starts, decisions>>

\* _send_drafts_to_slack and _wait_for_user_action, the two nodes of the
\* approval loop.  stream() raises GraphRecursionError once RECURSION_LIMIT
\* supersteps are done and the graph has not reached END.
ApprovalLoop(p) ==
    /\ Active(p)
    /\ h[p].node \in {"send_drafts_to_slack", "wait_for_user_action"}
    /\ LET state == h[p].state
           node == h[p].node
       IN
       IF h[p].steps >= RECURSION_LIMIT
       THEN /\ Raise(p, h[p].trace, "GraphRecursionError")
            /\ UNCHANGED <<store, Broker>>
       ELSE IF node = "wait_for_user_action"
       THEN /\ Consume(p, node, state, store)
            /\ UNCHANGED Broker
       ELSE CASE GateBranch(state) = "finalize" ->
                   /\ Consume(p, node, [state EXCEPT !.awaiting_approval = FALSE], store)
                   /\ UNCHANGED Broker
              [] GateBranch(state) = "timeout" ->
                   /\ Consume(p, node, GateTimeout(state), store)
                   /\ UNCHANGED Broker
              [] GateBranch(state) = "wait" ->
                   /\ Consume(p, node, state, store)
                   /\ UNCHANGED Broker
              [] GateBranch(state) = "publish" ->
                   \E outcome \in {"ok", "decode_raise", "post_raise"} :
                     LET draft_info == state.draft_responses[state.current_draft_index + 1]
                         r == send_draft_for_approval(draft_info.draft, state.user_id, outcome)
                         waiting == [state EXCEPT !.awaiting_approval = TRUE,
                                                  !.awaiting_approval_since = Some(now)]
                     IN
                     /\ pending_drafts' = r.pending
                     /\ draft_timeouts' = r.timeouts
                     /\ uuid_count' = IF outcome = "decode_raise" THEN uuid_count
                                      ELSE r.draft_id
                     /\ UNCHANGED mail_log
                     /\ published' = IF outcome = "ok"
                                     THEN Append(published,
                                                 [user |-> state.user_id,
                                                  index |-> state.current_draft_index,
                                                  draft |-> draft_info.draft])
                                     ELSE published
                     /\ IF r.raised
                        THEN /\ Raise(p, Append(h[p].trace, node), "publish")
                             /\ UNCHANGED store
                        ELSE IF SetAttrRaises("current_draft_id")
                        THEN \* state.current_draft_id = draft_id
                             /\ Raise(p, Append(h[p].trace, node), "ValueError")
                             /\ UNCHANGED store
                        ELSE Consume(p, node, waiting, save_state(store, waiting))
    /\ UNCHANGED <<Clock, starts, decisions>>

SendFinalSummary(p) ==
    /\ At(p, "send_final_summary")
    /\ Consume(p, "send_final_summary", _send_final_summary(h[p].state), store)
    /\ UNCHANGED <<Broker, Clock, starts, decisions>>

\* stream() is exhausted: the statements after the consuming loop.
\*   start_workflow               : save, {"status": "completed"}
\*   resume_workflow_after_action : save, respond(...)
\*   resume_workflow              : save, {"status": "resumed"}
\*   run                          : return final_state (nothing is saved)
Finish(p) ==
    /\ At(p, "END")
    /\ LET final_state == Val(h[p].final)
           outcome == CASE h[p].kind = "start" -> "completed"
                        [] h[p].kind = "route" -> "resumed"
                        [] h[p].kind = "stream" -> "returned"
                        [] h[p].kind = "bridge" ->
                             IF final_state.awaiting_approval THEN "paused"
                             ELSE IF final_state.workflow_complete THEN "completed"
                             ELSE "resumed"
       IN
       /\ store' = IF h[p].kind = "stream" THEN store
                   ELSE save_state(store, final_state)
       /\ last' = [last EXCEPT ![p] = Done(h[p].kind, h[p].user, outcome, h[p].trace, "none")]
    /\ h' = [h EXCEPT ![p] = Idle]
    /\ UNCHANGED <<Broker, Clock, starts, decisions>>

\* datetime.now() moves on.  Within a request the clock is read once, when a
\* draft is published, so time passing during a request is time passing
\* before or after it.
TickSteps == {DRAFT_TIMEOUT_SECONDS, DRAFT_TIMEOUT_SECONDS + 1}

Tick ==
    /\ ticks < MaxTicks
    /\ \A p \in Procs : ~Active(p)
    /\ \E d \in TickSteps : now' = now + d
    /\ ticks' = ticks + 1
    /\ UNCHANGED <<store, Broker, h, starts, decisions, last>>

----------------------------------------------------------------------------
(* Specifications *)

\* A fresh process: module-level StateManager() and DraftApprovalHandler()
Init ==
    /\ store = [u \in Users |-> None]
    /\ pending_drafts = [d \in DraftIds |-> None]
    /\ draft_timeouts = [d \in DraftIds |-> None]
    /\ uuid_count = 0
    /\ mail_log = <<>>
    /\ published = <<>>
    /\ now = 0
    /\ h = [p \in Procs |-> Idle]
    /\ starts = 0
    /\ decisions = 0
    /\ ticks = 0
    /\ last = [p \in Procs |-> NoRequest]

ActionTypes == {"approve", "reject", "save", "edit"}
MailOutcomes == {"ok", "falsy", "raise"}
RouteActions == {"approve_draft", "reject_draft", "save_draft", "other"}

\* The workflow is run for the users in Owners; any user clicks buttons.
Owners == {"u1"}

Handler(p, conc) ==
    \/ \E u \in Owners : StartWorkflow(p, u, conc)
    \/ \E actor \in Users, action_type \in ActionTypes,
          draft_id \in 0..uuid_count, mail \in MailOutcomes :
          SlackAction(p, actor, action_type, draft_id, mail, conc)
    \/ \E u \in Owners, action \in RouteActions : ResumeWorkflow(p, u, action, conc)
    \/ ReadUnreadEmails(p)
    \/ GenerateEmailSummary(p)
    \/ ProcessEmailsForDrafts(p)
    \/ CreateDraftResponses(p)
    \/ ApprovalLoop(p)
    \/ SendFinalSummary(p)
    \/ Finish(p)

\* The synchronous, request-driven server: one request at a time.
Next == Handler(1, FALSE) \/ Tick

Spec == Init /\ [][Next]_vars

\* The engine steps of the request served by p.
Engine(p) ==
    \/ ReadUnreadEmails(p)
    \/ GenerateEmailSummary(p)
    \/ ProcessEmailsForDrafts(p)
    \/ CreateDraftResponses(p)
    \/ ApprovalLoop(p)
    \/ SendFinalSummary(p)
    \/ Finish(p)

\* A threaded server: a button callback is accepted while another request is
\* in flight.  The two workers are interchangeable: the second takes a
\* callback only while the first is busy.
NextRace ==
    \/ \E u \in Owners : StartWorkflow(1, u, FALSE)
    \/ \E actor \in Owners, action_type \in {"approve", "reject"},
          draft_id \in 0..uuid_count, mail \in {"ok"} :
          \/ SlackAction(1, actor, action_type, draft_id, mail, TRUE)
          \/ Active(1) /\ SlackAction(2, actor, action_type, draft_id, mail, TRUE)
    \/ \E p \in Procs : Engine(p)

SpecRace == Init /\ [][NextRace]_vars

----------------------------------------------------------------------------
(* The graph driven on a given state *)

\* A draft_responses entry as _create_draft_responses builds it.
DraftInfo(email_id, text) ==
    [email_id |-> email_id,
     draft |-> [raw |-> <<email_id, text>>],
     original_email |-> EmailMessage(email_id),
     draft_content |-> text]

\* States the graph can hold at the approval gate: n drafts, a cursor, and
\* either no approval outstanding or one outstanding since time 0.
GateStates(user_id) ==
    {[GmailAgentState(user_id) EXCEPT
         !.unread_emails = IF n = 0 THEN <<>> ELSE <<EmailMessage(1)>>,
         !.processed_emails = [i \in 1..n |-> 1],
         !.draft_responses = [i \in 1..n |-> DraftInfo(1, 0)],
         !.current_draft_index = c,
         !.awaiting_approval = a,
         !.awaiting_approval_since = IF a THEN Some(0) ELSE None]
       : n \in 0..MaxCands, c \in 0..MaxCands, a \in BOOLEAN}

\* workflow.workflow.stream(state) on such a state, consumed to the end as
\* EmailProcessingWorkflow.run consumes it, at a time around the timeout.
InitGate ==
    /\ store = [u \in Users |-> None]
    /\ pending_drafts = [d \in DraftIds |-> None]
    /\ draft_timeouts = [d \in DraftIds |-> None]
    /\ uuid_count = 0
    /\ mail_log = <<>>
    /\ published = <<>>
    /\ now \in {TIMEOUT_SECONDS - 1, TIMEOUT_SECONDS, TIMEOUT_SECONDS + 1}
    /\ \E s \in GateStates("u1") :
          h = [p \in Procs |-> IF p = 1
                               THEN Running("stream", "u1", s, Some(s), Some(s))
                               ELSE Idle]
    /\ starts = 0
    /\ decisions = 0
    /\ ticks = 0
    /\ last = [p \in Procs |-> NoRequest]

NextGate == Engine(1)

SpecGate == InitGate /\ [][NextGate]_vars

----------------------------------------------------------------------------
(* The state store on its own *)

\* States save_state is handed: a gate state, with or without a summary,
\* complete or not.
StoreStates(user_id) ==
    {[s EXCEPT !.email_summary =
                   IF sm /\ s.unread_emails # <<>>
                   THEN Some([emails |-> s.unread_emails,
                              summary_by_sender |-> s.unread_emails,
                              recent_activity |-> "summary"])
                   ELSE None,
               !.workflow_complete = w]
       : s \in GateStates(user_id), sm \in BOOLEAN, w \in BOOLEAN}

\* Bytes under a key that are not an envelope save_state wrote.
CorruptEntries ==
    {Some([pickle |-> "garbage", type |-> "none", version |-> "1.0", data |-> None]),
     Some([pickle |-> "nondict", type |-> "none", version |-> "1.0", data |-> None]),
     Some([pickle |-> "dict", type |-> "EmailSummary", version |-> "1.0", data |-> None]),
     Some([pickle |-> "dict", type |-> "GmailAgentState", version |-> "1.0",
           data |-> None])}

IsCorrupt(bytes) == bytes \in CorruptEntries

\* An envelope like the ones save_state writes, of another version.
OtherVersionEntries ==
    {Some([Envelope(GmailAgentState(u)) EXCEPT !.version = "0.9"]) : u \in Owners}

\* A caller of the store and what its last call returned.
\*   op     : "save" | "load"
\*   arg    : the state saved (save), the key loaded (load)
\*   bytes  : what the key held when load was called
\*   raised : an exception left the call
\*   value  : the return value of load
\*   fresh  : the state whose save immediately preceded this load, if any
Client(op, arg, bytes, raised, value, fresh) ==
    [kind |-> "client", op |-> op, arg |-> arg, bytes |-> bytes,
     raised |-> raised, value |-> value, fresh |-> fresh]


\* What save_state is handed by a caller that passes no GmailAgentState: the
\* name of the argument's type.
NonStates == {"dict", "NoneType"}

\* save_state from its isinstance check on: [raised, store].  type is the
\* name of the argument's type, state the argument where it is a state.
SaveTry(st, type, state) ==
    IF type # "GmailAgentState"
    THEN [raised |-> TRUE, store |-> st]
    ELSE [raised |-> FALSE, store |-> save_state(st, state)]

\* save_state_to_store(state)
SaveState(p, state) ==
    LET r == SaveTry(store, "GmailAgentState", state) IN
    /\ store' = r.store
    /\ h' = [h EXCEPT ![p] = Client("save", Some(state), None, r.raised, None, None)]
    /\ UNCHANGED <<Broker, Clock, starts, decisions, last>>

\* save_state_to_store(x) where x is not a GmailAgentState
SaveNonState(p, type) ==
    LET r == SaveTry(store, type, None) IN
    /\ store' = r.store
    /\ h' = [h EXCEPT ![p] = Client("save", None, None, r.raised, None, None)]
    /\ UNCHANGED <<Broker, Clock, starts, decisions, last>>

\* load_state_from_store(user_id)
LoadState(p, user_id) ==
    /\ h' = [h EXCEPT ![p] =
                Client("load", Some(user_id), store[user_id], FALSE,
                       load_state(store, user_id),
                       IF h[p].kind = "client" /\ h[p].op = "save"
                          /\ ~h[p].raised
                          /\ Val(h[p].arg).user_id = user_id
                       THEN h[p].arg ELSE None)]
    /\ UNCHANGED <<store, Broker, Clock, starts, decisions, last>>

\* The store of a process found holding anything under the first user's key.
InitStore ==
    /\ store \in [Users -> {None} \cup CorruptEntries \cup OtherVersionEntries]
    /\ pending_drafts = [d \in DraftIds |-> None]
    /\ draft_timeouts = [d \in DraftIds |-> None]
    /\ uuid_count = 0
    /\ mail_log = <<>>
    /\ published = <<>>
    /\ now = 0
    /\ h = [p \in Procs |-> Idle]
    /\ starts = 0
    /\ decisions = 0
    /\ ticks = 0
    /\ last = [p \in Procs |-> NoRequest]

NextStore ==
    \/ \E u \in Owners : \E state \in StoreStates(u) : SaveState(1, state)
    \/ \E type \in NonStates : SaveNonState(1, type)
    \/ \E u \in Users : LoadState(1, u)

SpecStore == InitStore /\ [][NextStore]_vars

----------------------------------------------------------------------------
(* Properties *)

\* What the store holds under a key: the "data" of the envelope.
HasRecord(u) == ~IsNone(store[u])
Record(u) == Val(Val(store[u]).data)

Cursor(u) == Record(u).current_draft_index

EarlyNodes == {"read_unread_emails", "generate_email_summary",
               "process_emails_for_drafts", "create_draft_responses"}

IsDecision(kind) == kind \in {"bridge", "route"}

\* C1: in every stored record the cursor is at least 0 and at most the number
\* of drafts, and a write of the record never lowers the cursor.
C1_CursorInRange ==
    [][\A u \in Users :
         HasRecord(u)' =>
            /\ 0 <= Cursor(u)'
            /\ Cursor(u)' <= Len(Record(u)'.draft_responses)
            /\ HasRecord(u) => Cursor(u)' >= Cursor(u)]_vars

\* C2: a request whose gate publishes drafts[k] leaves the record suspended:
\* awaiting a decision, cursor = k, not complete.  (With N drafts this is the
\* state after each of the first N triggers.)
C2_PublishSuspends ==
    [][\A p \in Procs, u \in Users :
         (/\ At(p, "send_drafts_to_slack")
          /\ h[p].user = u
          /\ GateBranch(h[p].state) = "publish"
          /\ h'[p] # h[p]
          /\ Len(published') = Len(published) + 1)
         => /\ HasRecord(u)'
            /\ Record(u)'.awaiting_approval
            /\ ~Record(u)'.workflow_complete
            /\ Cursor(u)' = h[p].state.current_draft_index]_vars

\* C3: every trigger that drives the engine returns with the run either
\* suspended at the gate or finalized: it is not ended by an exception of the
\* engine itself (mailbox and Slack failures set aside), and the record it
\* leaves is awaiting a decision or complete.
C3_RunEndsSuspendedOrFinal ==
    \A p \in Procs :
       (/\ last[p].kind \in {"start", "bridge", "route"}
        /\ last[p].ran > 0
        /\ last[p].error \notin {"HttpError", "publish"})
       => /\ last[p].outcome # "raised"
          /\ HasRecord(last[p].user)
          /\ \/ Record(last[p].user).awaiting_approval
             \/ Record(last[p].user).workflow_complete

\* C4: a run resumed by a decision is at the gate or after it, never at one
\* of the four nodes before it, and holds the unread emails, summary,
\* candidates and drafts that were loaded.
C4_ResumeAtGate ==
    \A p \in Procs :
       (Active(p) /\ IsDecision(h[p].kind)) =>
          /\ h[p].node \notin EarlyNodes
          /\ h[p].state.unread_emails = Val(h[p].loaded).unread_emails
          /\ h[p].state.email_summary = Val(h[p].loaded).email_summary
          /\ h[p].state.processed_emails = Val(h[p].loaded).processed_emails
          /\ h[p].state.draft_responses = Val(h[p].loaded).draft_responses

Resolved(d) ==
    /\ ~IsNone(pending_drafts[d])
    /\ Val(pending_drafts[d]).status \in {"approved", "rejected"}

MailsFor(d) == {i \in DOMAIN mail_log : mail_log[i].draft_id = d}

\* C5: once an approval is resolved, nothing done later with its id changes
\* its record or causes another mail action for it.
C5_ResolveOnce ==
    [][\A d \in DraftIds :
         Resolved(d) => /\ pending_drafts'[d] = pending_drafts[d]
                        /\ MailsFor(d)' = MailsFor(d)]_vars

\* The gate is evaluated on a state that has awaited a decision on an
\* existing draft for longer than the in-gate timeout.
TimedOutAtGate(p) ==
    /\ At(p, "send_drafts_to_slack")
    /\ h[p].state.awaiting_approval
    /\ h[p].state.current_draft_index < Len(h[p].state.draft_responses)
    /\ now - Val(h[p].state.awaiting_approval_since) > TIMEOUT_SECONDS

PublishedTwice(u, k) ==
    \E i, j \in DOMAIN published :
       /\ i < j
       /\ published[i].user = u /\ published[i].index = k
       /\ published[j].user = u /\ published[j].index = k

C8_NothingToResume ==
    [][\A p \in Procs, u \in Users :
         (/\ decisions' = decisions + 1
          /\ IsNone(load_state(store, u))
          /\ last'[p] # last[p]
          /\ last'[p].user = u)
         => /\ last'[p].outcome = "nothing"
            /\ h' = h
            /\ store' = store
            /\ published' = published]_vars

LoadReturned(p) == h[p].kind = "client" /\ h[p].op = "load"

\* C9: load on a key whose entry is corrupt raises; it does not return.
C9_CorruptLoadRaises ==
    \A p \in Procs :
       (LoadReturned(p) /\ IsCorrupt(h[p].bytes)) => h[p].raised

\* C10: load(s.user_id) right after save(s) returns a state equal to s in
\* every field.
C10_RoundTrip ==
    \A p \in Procs :
       (LoadReturned(p) /\ ~IsNone(h[p].fresh)) => h[p].value = h[p].fresh

\* C11: a record with workflow_complete = TRUE is never written again: no
\* later step changes what the store holds for that user.
C11_CompleteImmutable ==
    [][\A u \in Users :
         (HasRecord(u) /\ Record(u).workflow_complete) => store'[u] = store[u]]_vars

\* C12: while the broker has never held an approval, so that every button
\* callback refers to an approval unknown to it, the handler of a callback
\* makes no mailbox call and changes no stored record.
C12_DeadApprovalNoOp ==
    [][\A p \in Procs :
         (uuid_count = 0 /\ h[p].kind = "bridge" /\ h'[p] # h[p]) =>
            /\ store' = store
            /\ mail_log' = mail_log]_vars

\* The step is a button callback that resolves the pending approval d.
Resolves(d) ==
    /\ decisions' = decisions + 1
    /\ Holds(pending_drafts, d)
    /\ Val(pending_drafts[d]).status = "pending"
    /\ Val(pending_drafts[d]).slack_message_ts
    /\ Holds(pending_drafts', d)
    /\ Val(pending_drafts'[d]).status \in {"approved", "rejected"}

\* C13: a callback that resolves an approval resumes the workflow of the
\* user the approval was published for, whoever clicked: the handler it
\* starts, or the "nothing to resume" it ends with, is for that owner.
C13_ResumesOwner ==
    [][\A d \in DraftIds, p \in Procs, o \in Users :
         (Resolves(d) /\ Val(pending_drafts[d]).user_id = o) =>
            /\ h'[p] # h[p] => h'[p].user = o
            /\ last'[p] # last[p] => last'[p].user = o]_vars

CollaboratorErrors == {"HttpError", "publish"}

\* C14: no request is ended by the exception of a failed collaborator call
\* (mailbox listing or thread fetch, approval publish).
C14_FailuresContained ==
    \A p \in Procs : last[p].error \notin CollaboratorErrors

\* C19: a start request that ends, mailbox and Slack failures set aside,
\* reports "paused" when at least one draft was composed and "completed"
\* otherwise, and the record of its user is stored by then, awaiting a
\* decision exactly in the first case.
C19_StartReport ==
    [][\A p \in Procs, u \in Users :
         (/\ Active(p) /\ h[p].kind = "start" /\ h[p].user = u
          /\ ~Active(p)'
          /\ last'[p].error \notin CollaboratorErrors)
         => /\ last'[p].outcome =
                  IF Len(h[p].state.draft_responses) >= 1 THEN "paused"
                  ELSE "completed"
            /\ HasRecord(u)'
            /\ Record(u)'.awaiting_approval = (Len(h[p].state.draft_responses) >= 1)]_vars

----------------------------------------------------------------------------
(* Generator calls *)

\* The calls of openai_client.chat.completions.create a node makes on a
\* state.  The summary and the triage node return before the call when there
\* are no unread emails.
SummaryCalls(state) == IF state.unread_emails = <<>> THEN 0 ELSE 1
TriageCalls(state) == IF state.unread_emails = <<>> THEN 0 ELSE 1

RECURSIVE DraftCalls(_, _, _)
\* The loop of _create_draft_responses from candidate k on: one call of
\* _generate_draft_response per candidate whose email is found, up to and
\* including a call that raises.
DraftCalls(state, k, env) ==
    IF k > Len(state.processed_emails) THEN 0
    ELSE IF state.processed_emails[k] = NoEmailId THEN 0
    ELSE IF IsNone(FindEmail(state.unread_emails, state.processed_emails[k]))
    THEN DraftCalls(state, k + 1, env)
    ELSE IF env.out[k] = "gen_raise" THEN 1
    ELSE 1 + DraftCalls(state, k + 1, env)

ComposeCalls(state, env) ==
    IF state.processed_emails = <<>> THEN 0 ELSE DraftCalls(state, 1, env)

DraftEnvs ==
    {[out |-> out, text |-> text] :
        out \in [1..MaxCands -> {"ok", "gen_raise", "create_raise"}],
        text \in [1..MaxCands -> Texts]}

\* The most calls the node about to run can make on the state it is given.
GeneratorCalls(node, state) ==
    CASE node = "generate_email_summary" -> SummaryCalls(state)
      [] node = "process_emails_for_drafts" -> TriageCalls(state)
      [] node = "create_draft_responses" ->
            IF \E env \in DraftEnvs : ComposeCalls(state, env) > 0 THEN 1 ELSE 0
      [] OTHER -> 0

----------------------------------------------------------------------------
(* A process restart *)

\* The process is stopped between two requests and started again: the
\* module-level StateManager() and the DraftApprovalHandler are built anew
\* with empty dicts.  What was sent to the mailbox and to Slack stays.
Restart ==
    /\ \A p \in Procs : ~Active(p)
    /\ \/ \E u \in Users : HasRecord(u)
       \/ \E d \in DraftIds : Holds(pending_drafts, d)
    /\ store' = [u \in Users |-> None]
    /\ pending_drafts' = [d \in DraftIds |-> None]
    /\ draft_timeouts' = [d \in DraftIds |-> None]
    /\ UNCHANGED <<uuid_count, mail_log, published, Clock, h, starts, decisions, last>>

NextRestart == Next \/ Restart

SpecRestart == Init /\ [][NextRestart]_vars

----------------------------------------------------------------------------
(* Decision triggers with a verb that is none of approve, reject, save *)

UnknownActionTypes == ActionTypes \ {"approve", "reject", "save"}
UnknownRouteActions == RouteActions \ {"approve_draft", "reject_draft", "save_draft"}

NextVerb ==
    \/ \E u \in Owners : StartWorkflow(1, u, FALSE)
    \/ \E actor \in Users, action_type \in UnknownActionTypes,
          draft_id \in 0..uuid_count, mail \in MailOutcomes :
          SlackAction(1, actor, action_type, draft_id, mail, FALSE)
    \/ \E u \in Owners, action \in UnknownRouteActions :
          ResumeWorkflow(1, u, action, FALSE)
    \/ Engine(1)
    \/ Tick

SpecVerb == Init /\ [][NextVerb]_vars

----------------------------------------------------------------------------
(* The broker's handlers called directly *)

MaxCalls == 3

\* A caller of the broker and its last call.
\*   entry    : "handler" for _handle_approve / _handle_reject / _handle_save
\*              called directly, "action" for handle_approval_action
\*   op       : the decision: the handler called, or the action_type sent
\*   held     : the broker record under draft_id when the call was made
\*   deadline : its entry in draft_timeouts then
\*   called_at: the time of the call
\*   logs     : the INFO log records written during the call
\*   reply    : what the call said on Slack
Caller(entry, op, draft_id, user_id, r) ==
    [kind |-> "caller", entry |-> entry, op |-> op, draft_id |-> draft_id,
     user_id |-> user_id,
     held |-> IF draft_id \in DraftIds THEN pending_drafts[draft_id] ELSE None,
     deadline |-> IF draft_id \in DraftIds THEN draft_timeouts[draft_id] ELSE None,
     called_at |-> now,
     logs |-> r.logs, reply |-> r.reply]

\* The broker after a handler has returned.
AfterHandler(p, entry, op, draft_id, user_id, r) ==
    /\ decisions < MaxCalls
    /\ decisions' = decisions + 1
    /\ pending_drafts' = r.pending
    /\ draft_timeouts' = r.timeouts
    /\ mail_log' = mail_log \o r.mails
    /\ h' = [h EXCEPT ![p] = Caller(entry, op, draft_id, user_id, r)]
    /\ UNCHANGED <<store, uuid_count, published, Clock, starts, last>>

HandleApprove(p, draft_id, user_id, mail) ==
    AfterHandler(p, "handler", "approve", draft_id, user_id,
                 _handle_approve(pending_drafts, draft_timeouts, draft_id, user_id, mail))

HandleReject(p, draft_id, user_id) ==
    AfterHandler(p, "handler", "reject", draft_id, user_id,
                 _handle_reject(pending_drafts, draft_timeouts, draft_id, user_id))

HandleSave(p, draft_id, user_id, mail) ==
    AfterHandler(p, "handler", "save", draft_id, user_id,
                 _handle_save(pending_drafts, draft_timeouts, draft_id, user_id, mail))

\* handle_approval_action called with a button click of user_id
HandleApprovalAction(p, action_type, draft_id, user_id, mail) ==
    AfterHandler(p, "action", action_type, draft_id, user_id,
                 handle_approval_action(action_type, draft_id, user_id, mail))

\* Time passes between two calls.
BrokerTick ==
    /\ ticks < MaxTicks
    /\ \E d \in TickSteps : now' = now + d
    /\ ticks' = ticks + 1
    /\ UNCHANGED <<store, Broker, h, starts, decisions, last>>

\* A broker that holds one published, pending approval, the first.
InitBroker ==
    /\ store = [u \in Users |-> None]
    /\ pending_drafts = [d \in DraftIds |->
                           IF d = 1
                           THEN Some([draft |-> DraftInfo(1, 0).draft, user_id |-> "u1",
                                      status |-> "pending", slack_message_ts |-> TRUE])
                           ELSE None]
    /\ draft_timeouts = [d \in DraftIds |->
                           IF d = 1 THEN Some(DRAFT_TIMEOUT_SECONDS) ELSE None]
    /\ uuid_count = 1
    /\ mail_log = <<>>
    /\ published = <<[user |-> "u1", index |-> 0, draft |-> DraftInfo(1, 0).draft]>>
    /\ now = 0
    /\ h = [p \in Procs |-> Idle]
    /\ starts = 0
    /\ decisions = 0
    /\ ticks = 0
    /\ last = [p \in Procs |-> NoRequest]

NextBroker ==
    \/ \E draft_id \in {1, 2}, user_id \in Users, mail \in MailOutcomes :
          HandleApprove(1, draft_id, user_id, mail)
    \/ \E draft_id \in {1, 2}, user_id \in Users :
          HandleReject(1, draft_id, user_id)
    \/ \E draft_id \in {1, 2}, user_id \in Users, mail \in MailOutcomes :
          HandleSave(1, draft_id, user_id, mail)
    \/ \E draft_id \in {1, 2}, user_id \in Users, mail \in MailOutcomes,
          action_type \in ActionTypes :
          HandleApprovalAction(1, action_type, draft_id, user_id, mail)
    \/ BrokerTick

SpecBroker == InitBroker /\ [][NextBroker]_vars

----------------------------------------------------------------------------
(* Properties, continued *)

\* C15: a decision trigger whose verb is none of approve, reject, save (the
\* only verbs sent under SpecVerb) starts no engine run, makes no mailbox
\* call and leaves every stored record as it is.
C15_UnknownVerbRejected ==
    [][decisions' = decisions + 1 =>
          /\ h' = h
          /\ store' = store
          /\ mail_log' = mail_log]_vars

IsCaller(p) == h[p].kind = "caller"

\* The call p has just returned from was handle_approval_action with this
\* verb on an approval that was pending and not expired.
Resolved_By(p, verb) ==
    /\ IsCaller(p)
    /\ h[p].entry = "action"
    /\ h[p].op = verb
    /\ ~IsNone(h[p].held)
    /\ Val(h[p].held).status = "pending"
    /\ h[p].called_at <= Val(h[p].deadline)

NewMails == SubSeq(mail_log', Len(mail_log) + 1, Len(mail_log'))

\* call is the mailbox call `op` on the draft the caller record c names.
IsCallOn(call, op, c) ==
    /\ call.op = op
    /\ call.draft_id = c.draft_id
    /\ call.draft = Val(c.held).draft

\* C16: resolving a pending, unexpired approval makes exactly the mailbox
\* call of the decision: approve one send, save one save, reject none, on
\* the draft stored under the approval; and every mailbox call the broker
\* makes is on the draft stored under the draft_id of the call it serves.
C16_ExactMailAction ==
    [][\A p \in Procs :
         (decisions' = decisions + 1 /\ IsCaller(p)') =>
            /\ Resolved_By(p, "approve")' =>
                  Len(NewMails) = 1 /\ IsCallOn(NewMails[1], "send", h'[p])
            /\ Resolved_By(p, "save")' =>
                  Len(NewMails) = 1 /\ IsCallOn(NewMails[1], "save", h'[p])
            /\ Resolved_By(p, "reject")' => NewMails = <<>>
            /\ \A i \in DOMAIN NewMails :
                  /\ ~IsNone(h'[p].held)
                  /\ NewMails[i].draft_id = h'[p].draft_id
                  /\ NewMails[i].draft = Val(h'[p].held).draft]_vars

\* C16 witness: the held approval was saved and then approved through
\* handle_approval_action while pending and unexpired: the mailbox got one
\* save and one send, both of the draft stored under it.
C16_Witness ==
    /\ Resolved_By(1, "approve")
    /\ h[1].draft_id = 1
    /\ Holds(pending_drafts, 1)
    /\ Val(pending_drafts[1]).status = "approved"
    /\ mail_log = <<MailCall("save", 1, Val(pending_drafts[1]).draft),
                    MailCall("send", 1, Val(pending_drafts[1]).draft)>>

OnePass == <<"read_unread_emails", "generate_email_summary",
             "process_emails_for_drafts", "create_draft_responses",
             "send_drafts_to_slack", "send_final_summary">>

\* C17: every step of a start request that found no unread email publishes
\* nothing and makes no generator call; the run holds no summary, no
\* candidates, no drafts and is never awaiting; it goes through the six nodes
\* once, ends complete, and the request reports "completed" with that state
\* stored.
C17_EmptyMailboxOnePass ==
    [][\A p \in Procs, u \in Users :
         (/\ Active(p) /\ h[p].kind = "start" /\ h[p].user = u
          /\ h[p].trace # <<>>
          /\ h[p].state.unread_emails = <<>>
          /\ h'[p] # h[p])
         => /\ UNCHANGED <<pending_drafts, uuid_count, published>>
            /\ GeneratorCalls(h[p].node, h[p].state) = 0
            /\ IF Active(p)'
               THEN /\ IsNone(h'[p].state.email_summary)
                    /\ h'[p].state.processed_emails = <<>>
                    /\ h'[p].state.draft_responses = <<>>
                    /\ ~h'[p].state.awaiting_approval
                    /\ h'[p].trace = SubSeq(OnePass, 1, Len(h'[p].trace))
                    /\ h'[p].node = "END" => h'[p].state.workflow_complete
               ELSE /\ last'[p].outcome = "completed"
                    /\ last'[p].ran = Len(OnePass)
                    /\ HasRecord(u)'
                    /\ Record(u)'.workflow_complete
                    /\ ~Record(u)'.awaiting_approval
                    /\ Record(u)'.draft_responses = <<>>
                    /\ IsNone(Record(u)'.email_summary)]_vars

\* C17 witness: the first request, a start, has ended "completed" after six
\* nodes with nothing unread, nothing published and a complete record.
C17_Witness ==
    /\ last[1].kind = "start"
    /\ last[1].outcome = "completed"
    /\ last[1].ran = Len(OnePass)
    /\ decisions = 0
    /\ uuid_count = 0
    /\ HasRecord(last[1].user)
    /\ Record(last[1].user).unread_emails = <<>>
    /\ Record(last[1].user).workflow_complete

\* C18: a record that load returns before a step is returned by load after
\* it, a restart of the process included.
C18_SurvivesRestart ==
    [][\A u \in Users :
         ~IsNone(load_state(store, u)) => ~IsNone(load_state(store', u))]_vars

DecisionMsg(op) ==
    CASE op = "approve" -> "Draft approved"
      [] op = "reject" -> "Draft rejected"
      [] op = "save" -> "Draft saved"

DecisionMsgs == {DecisionMsg(op) : op \in {"approve", "reject", "save"}}

\* The handler p has just called directly was called for a held draft_id.
HandlerCalled(p) ==
    /\ IsCaller(p)
    /\ h[p].entry = "handler"
    /\ ~IsNone(h[p].held)

\* C20: after _handle_approve, _handle_reject or _handle_save has been called
\* for a draft_id the broker held, the INFO records of the call hold exactly
\* one that names the decision, the draft_id and the user_id, and none that
\* names another decision; this after any sequence of such calls.
C20_DecisionLogged ==
    \A p \in Procs :
       HandlerCalled(p) =>
          /\ Cardinality({i \in DOMAIN h[p].logs :
                 h[p].logs[i] = Info(DecisionMsg(h[p].op), h[p].draft_id,
                                     h[p].user_id)}) = 1
          /\ \A i \in DOMAIN h[p].logs :
                h[p].logs[i].msg \in DecisionMsgs =>
                   h[p].logs[i].msg = DecisionMsg(h[p].op)

\* C20 witness: approve, reject and save were called in this order on the
\* same held draft, and the last call logged "Draft saved".
C20_Witness ==
    /\ HandlerCalled(1) /\ h[1].op = "save" /\ h[1].draft_id = 1
    /\ decisions = 3
    /\ Len(mail_log) = 2
    /\ mail_log[1].op = "send" /\ mail_log[1].draft_id = 1
    /\ mail_log[2].op = "save" /\ mail_log[2].draft_id = 1
    /\ Val(h[1].held).status = "rejected"
    /\ h[1].logs[1] = Info("Draft saved", 1, h[1].user_id)

----------------------------------------------------------------------------
(* Properties of the gate *)

Quiescent == \A p \in Procs : ~Active(p)

\* The approval d was posted for user u's draft at index i and is pending.
PublishedFor(d, u, i) ==
    /\ Holds(pending_drafts, d)
    /\ Val(pending_drafts[d]).user_id = u
    /\ Val(pending_drafts[d]).slack_message_ts
    /\ \E k \in DOMAIN published :
          /\ published[k].user = u
          /\ published[k].index = i
          /\ published[k].draft = Val(pending_drafts[d]).draft

Outstanding(u, i) ==
    \E d \in DraftIds :
       PublishedFor(d, u, i) /\ Val(pending_drafts[d]).status = "pending"

\* C21: between requests, a user's record is awaiting a decision exactly when
\* an approval posted for the draft at its cursor is pending: a posted, pending
\* approval comes with a stored record that awaits it, and a record that is
\* awaiting has its cursor on an existing draft whose approval is pending.
C21_AwaitingIffOutstanding ==
    Quiescent =>
       \A u \in Users :
          /\ \A i \in 0..MaxCands :
                Outstanding(u, i) =>
                   /\ HasRecord(u)
                   /\ Record(u).awaiting_approval
                   /\ Cursor(u) = i
          /\ (HasRecord(u) /\ Record(u).awaiting_approval) =>
                /\ Cursor(u) < Len(Record(u).draft_responses)
                /\ Outstanding(u, Cursor(u))

\* The step is a button callback, clicked by `actor`, that the broker serves
\* on the posted and pending approval d.
CallbackOn(d, actor) ==
    /\ decisions' = decisions + 1
    /\ Holds(pending_drafts, d)
    /\ Val(pending_drafts[d]).slack_message_ts
    /\ Val(pending_drafts[d]).status = "pending"
    /\ pending_drafts'[d] # pending_drafts[d] \/ mail_log' # mail_log
    /\ \A p \in Procs :
          /\ h'[p] # h[p] => h'[p].user = actor
          /\ last'[p] # last[p] => last'[p].user = actor

\* C22: the state is stored, awaiting and with the cursor of the published
\* draft, before the run is suspended: a callback of the owner on a posted,
\* pending approval finds the owner's record stored, awaiting a decision, its
\* cursor on the draft the approval was published for.
C22_StoredBeforeSuspend ==
    [][\A d \in DraftIds, u \in Users :
         (CallbackOn(d, u) /\ Val(pending_drafts[d]).user_id = u) =>
            /\ HasRecord(u)
            /\ Record(u).awaiting_approval
            /\ Cursor(u) < Len(Record(u).draft_responses)
            /\ Record(u).draft_responses[Cursor(u) + 1].draft =
                  Val(pending_drafts[d]).draft]_vars

AtEnd(state) ==
    /\ state.current_draft_index >= Len(state.draft_responses)
    /\ ~state.awaiting_approval

AwaitedAtGate(p) ==
    /\ At(p, "send_drafts_to_slack")
    /\ h[p].state.awaiting_approval
    /\ h[p].state.current_draft_index < Len(h[p].state.draft_responses)

Elapsed(state) == now - Val(state.awaiting_approval_since)

C25_TimeoutAtBoundary ==
    [][\A p \in Procs :
         (AwaitedAtGate(p) /\ h'[p] # h[p] /\ Active(p)') =>
            IF Elapsed(h[p].state) >= TIMEOUT_SECONDS
            THEN /\ ~h'[p].state.awaiting_approval
                 /\ h'[p].state.current_draft_index =
                       h[p].state.current_draft_index + 1
            ELSE h'[p].state = h[p].state]_vars

\* C26: the cursor of a stored record is past a draft only if an approval was
\* published for that draft of that user (a decision on it, or its timeout,
\* being what moved the cursor): a callback that carries no approval of the
\* draft leaves the cursor before it.
C26_CursorPassesOnlyDecided ==
    \A u \in Users :
       HasRecord(u) =>
          \A i \in DOMAIN Record(u).draft_responses :
             i <= Cursor(u) =>
                \E k \in DOMAIN published :
                   /\ published[k].user = u
                   /\ published[k].index = i - 1
                   /\ published[k].draft = Record(u).draft_responses[i].draft

----------------------------------------------------------------------------
(* Triage, draft creation and the gate, run in the order of the graph's
   edges on the state of a first run *)

\* The states the triage node is given in a run started on a new state: what
\* the read node and the summary node leave.
FreshStates(user_id) ==
    UNION {{_generate_email_summary(
               _read_unread_emails(GmailAgentState(user_id), listing, threads), gen)
             : threads \in [1..Len(listing) -> Listings], gen \in {"ok", "raise"}}
           : listing \in Listings}

\* What the triage node makes of the generator's answer: None (the call
\* raises, the content is not JSON, or the JSON value is not an object), or
\* the list under "emails_to_respond", whose entries are not validated.
TriageAnswers ==
    {None} \cup {Some(c) : c \in SeqsUpTo(EmailIds \cup {NoEmailId}, MaxCands)}

\* The nodes run so far and what each was given and returned.
\*   stage    : "triage" | "compose" | "gate", the last node run
\*   input    : the state given to the triage node
\*   answer   : the triage answer
\*   triaged  : the state the triage node returned
\*   env      : what happened to each candidate in the draft node
\*   composed : the state the draft node returned
\*   branch   : the branch the gate took on it
\*   next     : the node the gate's conditional edge leads to
Nodes(stage, input, answer, triaged, env, composed, branch, next) ==
    [kind |-> "nodes", stage |-> stage, input |-> input, answer |-> answer,
     triaged |-> triaged, env |-> env, composed |-> composed,
     branch |-> branch, next |-> next]

RunTriage(p, state, answer) ==
    /\ h' = [h EXCEPT ![p] =
                Nodes("triage", state, answer,
                      _process_emails_for_drafts(state, answer),
                      None, None, "none", "none")]
    /\ UNCHANGED <<store, Broker, Clock, starts, decisions, last>>

RunCompose(p, env) ==
    /\ h[p].kind = "nodes"
    /\ h[p].stage = "triage"
    /\ h' = [h EXCEPT ![p] =
                [@ EXCEPT !.stage = "compose",
                          !.env = Some(env),
                          !.composed = Some(_create_draft_responses(h[p].triaged, env))]]
    /\ UNCHANGED <<store, Broker, Clock, starts, decisions, last>>

\* The gate on the state the draft node returned, up to the publish call.
RunGate(p) ==
    /\ h[p].kind = "nodes"
    /\ h[p].stage = "compose"
    /\ LET state == Val(h[p].composed)
           branch == GateBranch(state)
       IN h' = [h EXCEPT ![p] =
                   [@ EXCEPT !.stage = "gate",
                             !.branch = branch,
                             !.next = IF branch = "finalize"
                                      THEN NextNode("send_drafts_to_slack",
                                              [state EXCEPT !.awaiting_approval = FALSE])
                                      ELSE "none"]]
    /\ UNCHANGED <<store, Broker, Clock, starts, decisions, last>>

NextNodes ==
    \/ \E u \in Owners : \E state \in FreshStates(u) : \E answer \in TriageAnswers :
          RunTriage(1, state, answer)
    \/ \E env \in DraftEnvs : RunCompose(1, env)
    \/ RunGate(1)

SpecNodes == Init /\ [][NextNodes]_vars

----------------------------------------------------------------------------
(* Properties of triage and draft creation *)

RECURSIVE BothSucceeded(_, _, _, _)
\* The drafts of the candidates, from candidate k on, whose email is among
\* the unread ones and for which the text generation and the draft creation
\* both succeed, in candidate order.
BothSucceeded(state, k, acc, env) ==
    IF k > Len(state.processed_emails) THEN acc
    ELSE LET email_id == state.processed_emails[k]
             email == FindEmail(state.unread_emails, email_id)
         IN
         IF IsNone(email) \/ env.out[k] # "ok"
         THEN BothSucceeded(state, k + 1, acc, env)
         ELSE BothSucceeded(state, k + 1,
                            Append(acc, [email_id |-> email_id,
                                         draft |-> [raw |-> <<email_id, env.text[k]>>],
                                         original_email |-> Val(email),
                                         draft_content |-> env.text[k]]),
                            env)

Composed(p) == h[p].kind = "nodes" /\ h[p].stage \in {"compose", "gate"}

WellFormed(cands) == \A k \in DOMAIN cands : cands[k] \in EmailIds

\* C27: after the draft node has run on candidates that each name an email,
\* draft_responses holds exactly the drafts of the candidates for which text
\* generation and draft creation both succeeded, in candidate order: a
\* candidate that fails is skipped and takes no other candidate's draft away.
C27_FailedCandidateSkipped ==
    \A p \in Procs :
       (Composed(p) /\ WellFormed(h[p].triaged.processed_emails)) =>
          Val(h[p].composed).draft_responses =
             BothSucceeded(h[p].triaged, 1, <<>>, Val(h[p].env))

\* The triage answer is not of the expected structure: nothing could be
\* parsed, or an entry of the list has no "email_id".
Unparseable(answer) ==
    \/ IsNone(answer)
    \/ \E k \in DOMAIN Val(answer) : Val(answer)[k] = NoEmailId

\* C28: when the triage node called the generator and the answer is not of
\* the expected structure, the node returns with processed_emails empty, the
\* draft node then creates no drafts, and the gate goes to the final summary.
C28_UnparseableTriage ==
    \A p \in Procs :
       (/\ h[p].kind = "nodes"
        /\ h[p].input.unread_emails # <<>>
        /\ Unparseable(h[p].answer))
       => /\ h[p].triaged.processed_emails = <<>>
          /\ Composed(p) => Val(h[p].composed).draft_responses = <<>>
          /\ h[p].stage = "gate" =>
                /\ h[p].branch = "finalize"
                /\ h[p].next = "send_final_summary"

----------------------------------------------------------------------------
(* Properties of the broker's records *)

\* The call p has just returned from was handle_approval_action on a
\* draft_id the broker held.
Touched(p) ==
    /\ IsCaller(p)
    /\ h[p].entry = "action"
    /\ ~IsNone(h[p].held)

TouchedLate(p) == Touched(p) /\ h[p].called_at > Val(h[p].deadline)

\* C29: a held approval touched through handle_approval_action after its
\* timeout causes no mailbox call whatever the verb, is answered as expired
\* and removed by that touch; touched at or before the timeout it is not
\* treated as expired; and time passing without a call removes or changes
\* no record, however long past the timeout.
C29_LazyExpiry ==
    [][/\ \A p \in Procs :
            (decisions' = decisions + 1 /\ Touched(p)') =>
               IF TouchedLate(p)'
               THEN /\ mail_log' = mail_log
                    /\ h'[p].reply = "expired"
                    /\ ~Holds(pending_drafts', h'[p].draft_id)
                    /\ IsNone(draft_timeouts'[h'[p].draft_id])
               ELSE h'[p].reply # "expired"
       /\ decisions' = decisions =>
             /\ pending_drafts' = pending_drafts
             /\ draft_timeouts' = draft_timeouts
             /\ mail_log' = mail_log]_vars

\* C29 witness: the approval, held untouched until after its timeout, was
\* then touched with approve: no mail was sent and the record is gone.
C29_Witness ==
    /\ TouchedLate(1)
    /\ h[1].op = "approve"
    /\ h[1].draft_id = 1
    /\ Val(h[1].held).status = "pending"
    /\ decisions = 1
    /\ now = DRAFT_TIMEOUT_SECONDS + 1
    /\ mail_log = <<>>
    /\ ~Holds(pending_drafts, 1)

Statuses == {"pending", "approved", "rejected", "saved", "expired"}

StatusFor(verb) ==
    CASE verb = "approve" -> "approved"
      [] verb = "reject" -> "rejected"
      [] verb = "save" -> "saved"

\* C30: a decision carried out on a pending, unexpired approval leaves it
\* with the status of the decision (approved, rejected, saved); the status of
\* every held approval is one of pending, approved, rejected, saved, expired;
\* and a status that is not pending does not become pending again.
C30_StatusOfDecision ==
    [][/\ \A p \in Procs, verb \in {"approve", "reject", "save"} :
            (/\ decisions' = decisions + 1
             /\ Resolved_By(p, verb)'
             /\ h'[p].reply = StatusFor(verb))
            => /\ Holds(pending_drafts', h'[p].draft_id)
               /\ Val(pending_drafts'[h'[p].draft_id]).status = StatusFor(verb)
       /\ \A d \in DraftIds :
            Holds(pending_drafts', d) =>
               /\ Val(pending_drafts'[d]).status \in Statuses
               /\ (Holds(pending_drafts, d) /\ Val(pending_drafts[d]).status # "pending")
                     => Val(pending_drafts'[d]).status # "pending"]_vars

\* The approvals posted for user u that are held with status pending.
PostedPending(u) ==
    {d \in DraftIds : /\ Holds(pending_drafts, d)
                      /\ Val(pending_drafts[d]).user_id = u
                      /\ Val(pending_drafts[d]).slack_message_ts
                      /\ Val(pending_drafts[d]).status = "pending"}

\* C31: between requests the broker holds at most one pending approval per
\* user, and where the user has a stored record that approval is the one
\* posted for the draft at the record's cursor, so that no approval posted
\* for a draft below the cursor is still pending.
C31_OnePendingPerUser ==
    Quiescent =>
       \A u \in Users :
          /\ Cardinality(PostedPending(u)) <= 1
          /\ HasRecord(u) =>
                \A d \in PostedPending(u) : PublishedFor(d, u, Cursor(u))

\* C32: an approve decision on a pending, unexpired approval whose mail send
\* fails (send_draft returns nothing, or raises) leaves the approval held
\* with status pending, so that the decision can be made again.
C32_FailedSendStaysPending ==
    [][\A p \in Procs :
         (/\ decisions' = decisions + 1
          /\ Resolved_By(p, "approve")'
          /\ h'[p].reply \in {"send_failed", "error"})
         => /\ Holds(pending_drafts', h'[p].draft_id)
            /\ Val(pending_drafts'[h'[p].draft_id]).status = "pending"]_vars

\* C33: a publish that raises leaves pending_drafts and draft_timeouts as
\* they were before the call, and every approval the broker holds has the
\* reference of its posted message.
C33_PublishAllOrNothing ==
    [][/\ \A p \in Procs :
            (last'[p] # last[p] /\ last'[p].error = "publish")
            => /\ pending_drafts' = pending_drafts
               /\ draft_timeouts' = draft_timeouts
       /\ \A d \in DraftIds :
            Holds(pending_drafts', d) => Val(pending_drafts'[d]).slack_message_ts]_vars

----------------------------------------------------------------------------
(* Properties of the order of the nodes *)

\* The nodes of a start request in flight on p have run in the order of
\* OnePass, each once, and the node that runs next is the next of that order.
InOrder(p) ==
    LET t == h[p].trace IN
    /\ Len(t) <= Len(OnePass)
    /\ t = SubSeq(OnePass, 1, Len(t))
    /\ Len(t) < Len(OnePass) => h[p].node = OnePass[Len(t) + 1]

----------------------------------------------------------------------------
(* Properties of the state store *)

IsClient(p) == h[p].kind = "client"

\* The version save_state writes into its envelopes.
WrittenVersion == Envelope(GmailAgentState("u1")).version

\* C35: a load that finds an envelope of a version other than the one
\* save_state writes raises: it returns neither None nor a state.
C35_VersionMismatchRaises ==
    \A p \in Procs :
       (/\ IsClient(p)
        /\ h[p].op = "load"
        /\ ~IsNone(h[p].bytes)
        /\ Val(h[p].bytes).pickle = "dict"
        /\ Val(h[p].bytes).version # WrittenVersion)
       => h[p].raised

\* C36: a save handed something that is not a GmailAgentState raises and
\* leaves every record as it was; a save handed a state does not raise, puts
\* the envelope of that state under state.user_id in place of what was
\* there, and leaves the record of every other user as it was.
C36_SaveTouchesOneRecord ==
    [][\A p \in Procs :
         (h'[p] # h[p] /\ IsClient(p)' /\ h'[p].op = "save") =>
            IF IsNone(h'[p].arg)
            THEN h'[p].raised /\ store' = store
            ELSE /\ ~h'[p].raised
                 /\ store'[Val(h'[p].arg).user_id] = Some(Envelope(Val(h'[p].arg)))
                 /\ \A u \in Users \ {Val(h'[p].arg).user_id} :
                       store'[u] = store[u]]_vars

\* A state has been saved for the first user while the store holds
\* something for the second.
C36_Witness ==
    /\ IsClient(1)
    /\ h[1].op = "save"
    /\ ~h[1].raised
    /\ store["u1"] = Some(Envelope(Val(h[1].arg)))
    /\ ~IsNone(store["u2"])

----------------------------------------------------------------------------
(* The two storage backends side by side *)

Backends == {"memory", "file"}

\* StateManager(storage_backend).save_state(state): [raised, store].  With
\* "file" the call of self._save_to_file, a method the class does not have,
\* raises AttributeError after the envelope is pickled; nothing is written.
BackendSave(backend, st, state) ==
    IF backend = "memory"
    THEN SaveTry(st, "GmailAgentState", state)
    ELSE [raised |-> TRUE, store |-> st]

\* StateManager(storage_backend).load_state(user_id): the value returned.
\* With "file" the call of self._load_from_file raises AttributeError inside
\* the try block, and the except clause returns None.
BackendLoad(backend, st, user_id) ==
    IF backend = "memory" THEN load_state(st, user_id) ELSE None

\* Two managers, one of each backend, handed the same call, and what each
\* returned: [raised, value].  The memory manager's records are `store`; the
\* file manager never has any.
Pair(op, arg, memory, file) ==
    [kind |-> "pair", op |-> op, arg |-> arg, memory |-> memory, file |-> file]

Returned(raised, value) == [raised |-> raised, value |-> value]

PairSave(p, state) ==
    LET m == BackendSave("memory", store, state)
        f == BackendSave("file", [u \in Users |-> None], state)
    IN
    /\ store' = m.store
    /\ h' = [h EXCEPT ![p] = Pair("save", Some(state), Returned(m.raised, None),
                                  Returned(f.raised, None))]
    /\ UNCHANGED <<Broker, Clock, starts, decisions, last>>

PairLoad(p, user_id) ==
    /\ h' = [h EXCEPT ![p] =
                Pair("load", Some(user_id),
                     Returned(FALSE, BackendLoad("memory", store, user_id)),
                     Returned(FALSE, BackendLoad("file", [u \in Users |-> None],
                                                 user_id)))]
    /\ UNCHANGED <<store, Broker, Clock, starts, decisions, last>>

NextBackends ==
    \/ \E u \in Owners : \E state \in StoreStates(u) : PairSave(1, state)
    \/ \E u \in Users : PairLoad(1, u)

SpecBackends == Init /\ [][NextBackends]_vars

\* C37: a manager with the memory backend and a manager with the file
\* backend, handed the same sequence of save and load calls from new, return
\* the same from every call: both raise or neither does, and a load returns
\* the same value.
C37_BackendsEquivalent ==
    \A p \in Procs : h[p].kind = "pair" => h[p].memory = h[p].file

----------------------------------------------------------------------------
(* The read node on its own *)

MaxReadId == 2
MaxListed == 2
MaxFetched == 2

ReadIds == 1..MaxReadId

\* What read_emails(count=5, unread_only=True) returns: message ids.
UnreadListings == SeqsUpTo(ReadIds, MaxListed)

\* What one get_recent_emails_in_thread call returns.
ThreadFetches == SeqsUpTo(ReadIds, MaxFetched)

\* A run of the read node on a new state: what the mailbox returned and the
\* ids of unread_emails afterwards, in order.
Read(listing, threads, state) ==
    [kind |-> "read", listing |-> listing, threads |-> threads,
     ids |-> [i \in DOMAIN state.unread_emails |-> state.unread_emails[i].id]]

RunRead(p, user_id, listing, threads) ==
    /\ h' = [h EXCEPT ![p] =
                Read(listing, threads,
                     _read_unread_emails(GmailAgentState(user_id), listing, threads))]
    /\ UNCHANGED <<store, Broker, Clock, starts, decisions, last>>

NextRead ==
    \E u \in Owners, listing \in UnreadListings :
       \E threads \in [1..Len(listing) -> ThreadFetches] :
          RunRead(1, u, listing, threads)

SpecRead == Init /\ [][NextRead]_vars

\* The position of the first occurrence of x in seq.
FirstAt(seq, x) == CHOOSE i \in DOMAIN seq : seq[i] = x /\ \A j \in 1..(i - 1) : seq[j] # x

\* C38: after the read node, unread_emails holds every message id found by
\* the unread listing or by a thread fetch, each once, and the ids that the
\* thread fetches found are in the order in which the fetches first found
\* them.
C38_AllDiscoveredOnceInOrder ==
    \A p \in Procs :
       h[p].kind = "read" =>
          LET fetched == ThreadEmails(Len(h[p].listing), h[p].threads)
              ids == h[p].ids
          IN
          /\ Range(ids) = Range(h[p].listing) \cup Range(fetched)
          /\ \A i, j \in DOMAIN ids : ids[i] = ids[j] => i = j
          /\ \A i, j \in DOMAIN ids :
                (i < j /\ ids[i] \in Range(fetched) /\ ids[j] \in Range(fetched))
                => FirstAt(fetched, ids[i]) < FirstAt(fetched, ids[j])
====
